---- MODULE Spec2Model ----
(***************************************************************************)
(* ResolutionCalculator (src/core/calculator.py) and the event handlers   *)
(* of the main window that drive it and refresh the display                *)
(* (src/ui/main_window.py), as a state machine.                            *)
(*                                                                         *)
(* Decimal values are fixed-point integers: width and height count         *)
(* hundredths (they are always quantized to 0.01), aspect_ratio counts     *)
(* millionths (always quantized to 0.000001).  An input Decimal is a       *)
(* record: a finite value coef * 10^-scale, or NaN, or +/-Infinity, or a   *)
(* string that Decimal() cannot parse.                                     *)
(***************************************************************************)
EXTENDS Integers, Sequences, FiniteSets, TLC

\* the four fields of the calculator; last records the latest operation: its
\* name, its argument, the fields before it and the path it took ("ok",
\* "warning" for a printed warning, "error" for a caught exception); prev is
\* the record of the operation before it when that was a setWidth or a
\* setLocked, the first calls of the two-call properties, and NoPrev
\* otherwise; steps counts the operations; shown is what the widgets of the
\* main window display
VARIABLES width, height, aspect_ratio, ratio_locked, last, prev, steps, shown

vars == <<width, height, aspect_ratio, ratio_locked, last, prev, steps, shown>>

(***************************************************************************)
(* Bounds of the model.                                                    *)
(***************************************************************************)
\* largest width/height explored, in hundredths (30000.00)
MaxDim == 3000000
\* largest aspect ratio explored, in millionths (100.000000)
MaxRatio == 100000000
\* number of catalog presets, from the top of PRESETS, that are applied
MaxPreset == 2
\* number of operations in a run
MaxSteps == 4
\* ceiling at which the fixed-point helpers saturate, far above MaxDim/MaxRatio
IntCap == 2000000000

(***************************************************************************)
(* Decimal inputs.                                                         *)
(***************************************************************************)
Fin(c, s) == [kind |-> "fin", coef |-> c, scale |-> s]
NaN == [kind |-> "nan", coef |-> 0, scale |-> 0]
PosInf == [kind |-> "inf", coef |-> 1, scale |-> 0]
NegInf == [kind |-> "inf", coef |-> -1, scale |-> 0]
Unparsable == [kind |-> "bad", coef |-> 0, scale |-> 0]

\* aspect_ratio = None
None == -1

RECURSIVE Pow10(_)
Pow10(n) == IF n = 0 THEN 1 ELSE 10 * Pow10(n - 1)

Abs(n) == IF n < 0 THEN -n ELSE n

\* n / d rounded to an integer with ROUND_HALF_UP (ties away from zero), d > 0
RoundHalfUpDiv(n, d) ==
    LET q == Abs(n) \div d
        r == Abs(n) % d
        m == IF 2 * r >= d THEN q + 1 ELSE q
    IN  IF n < 0 THEN -m ELSE m

\* Decimal(value).quantize(Decimal(10^-k), rounding=ROUND_HALF_UP) of a finite
\* value, as a count of 10^-k units
Quantize(d, k) ==
    IF d.scale <= k
    THEN d.coef * Pow10(k - d.scale)
    ELSE RoundHalfUpDiv(d.coef, Pow10(d.scale - k))

\* <<floor(n * 10^sh / d), remainder>> for n >= 0, d > 0, by long division;
\* the quotient saturates at IntCap
RECURSIVE LongDiv(_, _, _)
LongDiv(n, d, sh) ==
    IF sh = 0
    THEN <<n \div d, n % d>>
    ELSE LET p == LongDiv(n, d, sh - 1)
         IN  IF p[1] > IntCap \div 10
             THEN <<IntCap, 0>>
             ELSE <<p[1] * 10 + (p[2] * 10) \div d, (p[2] * 10) % d>>

\* (n / d) * 10^sh rounded ROUND_HALF_UP, n >= 0, d > 0
DivRound(n, d, sh) ==
    LET p == LongDiv(n, d, sh)
    IN  IF p[1] >= IntCap THEN IntCap
        ELSE IF 2 * p[2] >= d THEN p[1] + 1 ELSE p[1]

\* <<floor(a * b / 10^sh), remainder>> for a, b >= 0, digit by digit over b;
\* the quotient saturates at IntCap
RECURSIVE LongMul(_, _, _)
LongMul(a, b, sh) ==
    IF b = 0
    THEN <<0, 0>>
    ELSE LET p == LongMul(a, b \div 10, sh)
             t == p[2] * 10 + a * (b % 10)
         IN  IF p[1] > IntCap \div 10
             THEN <<IntCap, 0>>
             ELSE <<p[1] * 10 + t \div Pow10(sh), t % Pow10(sh)>>

\* a * b / 10^sh rounded ROUND_HALF_UP, a, b >= 0
MulRound(a, b, sh) ==
    LET p == LongMul(a, b, sh)
    IN  IF p[1] >= IntCap THEN IntCap
        ELSE IF 2 * p[2] >= Pow10(sh) THEN p[1] + 1 ELSE p[1]

\* (w / h).quantize(0.000001): hundredths over hundredths, in millionths
round6_div(w, h) == DivRound(w, h, 6)
\* (w / r).quantize(0.01): hundredths over millionths, in hundredths
round2_div(w, r) == DivRound(w, r, 6)
\* (h * r).quantize(0.01): hundredths times millionths, in hundredths
round2_mul(h, r) == MulRound(h, r, 6)
\* (w * f).quantize(0.01): hundredths times a finite Decimal, in hundredths
round2_scale(w, f) == MulRound(w, f.coef, f.scale)

(***************************************************************************)
(* The calculator's fields as a record, and its methods as functions from  *)
(* a field record to the field record they leave and the path they took.   *)
(***************************************************************************)
Fields(w, h, r, l) == [w |-> w, h |-> h, r |-> r, l |-> l]

Ret(s, res) == [st |-> s, res |-> res]

\* the ratio cut to 6 decimals instead of rounded half-up
_calculate_ratio_truncating(s) ==
    IF s.h > 0
    THEN [s EXCEPT !.r = LongDiv(s.w, s.h, 6)[1]]
    ELSE [s EXCEPT !.r = None]


_calculate_ratio(s) ==
    IF s.h > 0
    THEN [s EXCEPT !.r = round6_div(s.w, s.h)]
    ELSE [s EXCEPT !.r = None]
\* "< 0" in place of "<= 0": a width that rounds to zero is accepted
set_width_allows_zero(s, value) ==
    IF value.kind # "fin" THEN Ret(s, "error")
    ELSE LET new_width == Quantize(value, 2) IN
         IF new_width < 0 THEN Ret(s, "error")
         ELSE IF s.l /\ s.r # None /\ s.r # 0
              THEN LET new_height == round2_div(new_width, s.r) IN
                   IF new_height <= 0 THEN Ret(s, "warning")
                   ELSE Ret([s EXCEPT !.h = new_height, !.w = new_width], "ok")
              ELSE IF ~s.l
                   THEN Ret(_calculate_ratio([s EXCEPT !.w = new_width]), "ok")
                   ELSE Ret([s EXCEPT !.w = new_width], "ok")

\* the width stored before the dependent height is validated
set_width_stores_before_check(s, value) ==
    IF value.kind # "fin" THEN Ret(s, "error")
    ELSE LET new_width == Quantize(value, 2) IN
         IF new_width <= 0 THEN Ret(s, "error")
         ELSE IF s.l /\ s.r # None /\ s.r # 0
              THEN LET new_height == round2_div(new_width, s.r) IN
                   IF new_height <= 0
                   THEN Ret([s EXCEPT !.w = new_width], "warning")
                   ELSE Ret([s EXCEPT !.h = new_height, !.w = new_width], "ok")
              ELSE IF ~s.l
                   THEN Ret(_calculate_ratio([s EXCEPT !.w = new_width]), "ok")
                   ELSE Ret([s EXCEPT !.w = new_width], "ok")

\* the ratio recalculated after every width change, locked or not
set_width_always_recalc(s, value) ==
    IF value.kind # "fin" THEN Ret(s, "error")
    ELSE LET new_width == Quantize(value, 2) IN
         IF new_width <= 0 THEN Ret(s, "error")
         ELSE IF s.l /\ s.r # None /\ s.r # 0
              THEN LET new_height == round2_div(new_width, s.r) IN
                   IF new_height <= 0 THEN Ret(s, "warning")
                   ELSE Ret(_calculate_ratio(
                                [s EXCEPT !.h = new_height, !.w = new_width]), "ok")
              ELSE Ret(_calculate_ratio([s EXCEPT !.w = new_width]), "ok")

\* the height derived as width * ratio, the formula of the height setter
set_width_multiplying(s, value) ==
    IF value.kind # "fin" THEN Ret(s, "error")
    ELSE LET new_width == Quantize(value, 2) IN
         IF new_width <= 0 THEN Ret(s, "error")
         ELSE IF s.l /\ s.r # None /\ s.r # 0
              THEN LET new_height == round2_mul(new_width, s.r) IN
                   IF new_height <= 0 THEN Ret(s, "warning")
                   ELSE Ret([s EXCEPT !.h = new_height, !.w = new_width], "ok")
              ELSE IF ~s.l
                   THEN Ret(_calculate_ratio([s EXCEPT !.w = new_width]), "ok")
                   ELSE Ret([s EXCEPT !.w = new_width], "ok")

\* Decimal(value).quantize(...) followed by the "<= 0" test raises for every
\* value that is not a positive finite number: Decimal() rejects an unparsable
\* string, quantize rejects an infinity, and comparing NaN signals
\* InvalidOperation.
set_width(s, value) ==
    IF value.kind # "fin" THEN Ret(s, "error")
    ELSE LET new_width == Quantize(value, 2) IN
         IF new_width <= 0 THEN Ret(s, "error")
         ELSE IF s.l /\ s.r # None /\ s.r # 0
              THEN LET new_height == round2_div(new_width, s.r) IN
                   IF new_height <= 0 THEN Ret(s, "warning")
                   ELSE Ret([s EXCEPT !.h = new_height, !.w = new_width], "ok")
              ELSE IF ~s.l
                   THEN Ret(_calculate_ratio([s EXCEPT !.w = new_width]), "ok")
                   ELSE Ret([s EXCEPT !.w = new_width], "ok")
\* the width derived as height / ratio, the formula of the width setter
set_height_dividing(s, value) ==
    IF value.kind # "fin" THEN Ret(s, "error")
    ELSE LET new_height == Quantize(value, 2) IN
         IF new_height <= 0 THEN Ret(s, "error")
         ELSE IF s.l /\ s.r # None /\ s.r # 0
              THEN LET new_width == round2_div(new_height, s.r) IN
                   IF new_width <= 0 THEN Ret(s, "warning")
                   ELSE Ret([s EXCEPT !.w = new_width, !.h = new_height], "ok")
              ELSE IF ~s.l
                   THEN Ret(_calculate_ratio([s EXCEPT !.h = new_height]), "ok")
                   ELSE Ret([s EXCEPT !.h = new_height], "ok")

\* the ratio not recalculated after an unlocked height change
set_height_no_recalc(s, value) ==
    IF value.kind # "fin" THEN Ret(s, "error")
    ELSE LET new_height == Quantize(value, 2) IN
         IF new_height <= 0 THEN Ret(s, "error")
         ELSE IF s.l /\ s.r # None /\ s.r # 0
              THEN LET new_width == round2_mul(new_height, s.r) IN
                   IF new_width <= 0 THEN Ret(s, "warning")
                   ELSE Ret([s EXCEPT !.w = new_width, !.h = new_height], "ok")
              ELSE Ret([s EXCEPT !.h = new_height], "ok")

\* "< 0" in place of "<= 0": a height that rounds to zero is accepted
set_height_allows_zero(s, value) ==
    IF value.kind # "fin" THEN Ret(s, "error")
    ELSE LET new_height == Quantize(value, 2) IN
         IF new_height < 0 THEN Ret(s, "error")
         ELSE IF s.l /\ s.r # None /\ s.r # 0
              THEN LET new_width == round2_mul(new_height, s.r) IN
                   IF new_width <= 0 THEN Ret(s, "warning")
                   ELSE Ret([s EXCEPT !.w = new_width, !.h = new_height], "ok")
              ELSE IF ~s.l
                   THEN Ret(_calculate_ratio([s EXCEPT !.h = new_height]), "ok")
                   ELSE Ret([s EXCEPT !.h = new_height], "ok")

set_height(s, value) ==
    IF value.kind # "fin" THEN Ret(s, "error")
    ELSE LET new_height == Quantize(value, 2) IN
         IF new_height <= 0 THEN Ret(s, "error")
         ELSE IF s.l /\ s.r # None /\ s.r # 0
              THEN LET new_width == round2_mul(new_height, s.r) IN
                   IF new_width <= 0 THEN Ret(s, "warning")
                   ELSE Ret([s EXCEPT !.w = new_width, !.h = new_height], "ok")
              ELSE IF ~s.l
                   THEN Ret(_calculate_ratio([s EXCEPT !.h = new_height]), "ok")
                   ELSE Ret([s EXCEPT !.h = new_height], "ok")
\* the ratio recalculated on unlocking as well as on locking
lock_ratio_recalc_on_unlock(s, lock) ==
    IF s.l = lock THEN s
    ELSE _calculate_ratio([s EXCEPT !.l = lock])

\* no early return: locking a locked state recalculates the frozen ratio
lock_ratio_no_early_return(s, lock) ==
    IF lock
    THEN _calculate_ratio([s EXCEPT !.l = TRUE])
    ELSE [s EXCEPT !.l = FALSE]

\* the flag set without recalculating the ratio on locking
lock_ratio_flag_only(s, lock) ==
    IF s.l = lock THEN s
    ELSE [s EXCEPT !.l = lock]

lock_ratio(s, lock) ==
    IF s.l = lock THEN s
    ELSE IF lock
         THEN _calculate_ratio([s EXCEPT !.l = TRUE])
         ELSE [s EXCEPT !.l = FALSE]

\* A ratio string is the sequence of the texts between its ':' separators,
\* each text the Decimal it parses to: <<d>> has no ':', <<l, r>> has one.
\* The parse yields the target ratio in millionths, or None when it raises.
\* A non-finite part always raises: NaN in the "<= 0" test, an infinite
\* quotient or bare infinity in quantize, -Infinity and w / Infinity = 0 in
\* the positivity tests.
ParseRatio(ratio_str) ==
    IF Len(ratio_str) = 1
    THEN IF ratio_str[1].kind # "fin" THEN None
         ELSE Quantize(ratio_str[1], 6)
    ELSE IF Len(ratio_str) # 2 THEN None
    ELSE LET w_part == ratio_str[1]
             h_part == ratio_str[2]
         IN  IF w_part.kind # "fin" \/ h_part.kind # "fin" THEN None
             ELSE IF w_part.coef <= 0 \/ h_part.coef <= 0 THEN None
             ELSE DivRound(w_part.coef * Pow10(h_part.scale),
                           h_part.coef * Pow10(w_part.scale), 6)

\* "< 0" in place of "<= 0": a ratio that rounds to zero is accepted
set_ratio_and_calculate_allows_zero(s, ratio_str, base_on_width) ==
    LET target_ratio == ParseRatio(ratio_str) IN
    IF target_ratio < 0 THEN Ret(s, "error")
    ELSE LET t == [s EXCEPT !.r = target_ratio, !.l = TRUE] IN
         IF base_on_width
         THEN IF t.w > 0 /\ t.r > 0
              THEN LET new_height == round2_div(t.w, t.r) IN
                   IF new_height > 0
                   THEN Ret([t EXCEPT !.h = new_height], "ok")
                   ELSE Ret(t, "warning")
              ELSE Ret(t, "warning")
         ELSE IF t.h > 0 /\ t.r > 0
              THEN LET new_width == round2_mul(t.h, t.r) IN
                   IF new_width > 0
                   THEN Ret([t EXCEPT !.w = new_width], "ok")
                   ELSE Ret(t, "warning")
              ELSE Ret(t, "warning")

\* the ratio stored without engaging the lock
set_ratio_and_calculate_no_lock(s, ratio_str, base_on_width) ==
    LET target_ratio == ParseRatio(ratio_str) IN
    IF target_ratio <= 0 THEN Ret(s, "error")
    ELSE LET t == [s EXCEPT !.r = target_ratio] IN
         IF base_on_width
         THEN IF t.w > 0 /\ t.r > 0
              THEN LET new_height == round2_div(t.w, t.r) IN
                   IF new_height > 0
                   THEN Ret([t EXCEPT !.h = new_height], "ok")
                   ELSE Ret(t, "warning")
              ELSE Ret(t, "warning")
         ELSE IF t.h > 0 /\ t.r > 0
              THEN LET new_width == round2_mul(t.h, t.r) IN
                   IF new_width > 0
                   THEN Ret([t EXCEPT !.w = new_width], "ok")
                   ELSE Ret(t, "warning")
              ELSE Ret(t, "warning")

\* ratio and lock put back when the dependent dimension is skipped
set_ratio_and_calculate_reverting(s, ratio_str, base_on_width) ==
    LET target_ratio == ParseRatio(ratio_str) IN
    IF target_ratio <= 0 THEN Ret(s, "error")
    ELSE LET t == [s EXCEPT !.r = target_ratio, !.l = TRUE] IN
         IF base_on_width
         THEN IF t.w > 0 /\ t.r > 0
              THEN LET new_height == round2_div(t.w, t.r) IN
                   IF new_height > 0
                   THEN Ret([t EXCEPT !.h = new_height], "ok")
                   ELSE Ret(s, "warning")
              ELSE Ret(s, "warning")
         ELSE IF t.h > 0 /\ t.r > 0
              THEN LET new_width == round2_mul(t.h, t.r) IN
                   IF new_width > 0
                   THEN Ret([t EXCEPT !.w = new_width], "ok")
                   ELSE Ret(s, "warning")
              ELSE Ret(s, "warning")

set_ratio_and_calculate(s, ratio_str, base_on_width) ==
    LET target_ratio == ParseRatio(ratio_str) IN
    IF target_ratio <= 0 THEN Ret(s, "error")
    ELSE LET t == [s EXCEPT !.r = target_ratio, !.l = TRUE] IN
         IF base_on_width
         THEN IF t.w > 0 /\ t.r > 0
              THEN LET new_height == round2_div(t.w, t.r) IN
                   IF new_height > 0
                   THEN Ret([t EXCEPT !.h = new_height], "ok")
                   ELSE Ret(t, "warning")
              ELSE Ret(t, "warning")
         ELSE IF t.h > 0 /\ t.r > 0
              THEN LET new_width == round2_mul(t.h, t.r) IN
                   IF new_width > 0
                   THEN Ret([t EXCEPT !.w = new_width], "ok")
                   ELSE Ret(t, "warning")
              ELSE Ret(t, "warning")
\* no temporary unlock: the setters derive one dimension from the other
multiply_by_scale_no_unlock(s, scale_factor) ==
    IF scale_factor.kind \in {"bad", "nan"} THEN Ret(s, "error")
    ELSE IF scale_factor.coef <= 0 THEN Ret(s, "error")
    ELSE IF scale_factor.kind = "inf" THEN Ret(s, "error")
    ELSE LET new_width == round2_scale(s.w, scale_factor)
             new_height == round2_scale(s.h, scale_factor)
         IN  IF new_width <= 0 \/ new_height <= 0
             THEN Ret(s, "warning")
             ELSE LET a == set_width(s, Fin(new_width, 2)).st
                      b == set_height(a, Fin(new_height, 2)).st
                  IN  Ret(b, "ok")

\* the lock not engaged again after the scaled values are set
multiply_by_scale_no_relock(s, scale_factor) ==
    IF scale_factor.kind \in {"bad", "nan"} THEN Ret(s, "error")
    ELSE IF scale_factor.coef <= 0 THEN Ret(s, "error")
    ELSE LET was_locked == s.l
             u == IF was_locked THEN lock_ratio(s, FALSE) ELSE s
         IN  IF scale_factor.kind = "inf" THEN Ret(u, "error")
             ELSE LET new_width == round2_scale(u.w, scale_factor)
                      new_height == round2_scale(u.h, scale_factor)
                  IN  IF new_width <= 0 \/ new_height <= 0
                      THEN Ret(IF was_locked THEN lock_ratio(u, TRUE) ELSE u,
                               "warning")
                      ELSE LET a == set_width(u, Fin(new_width, 2)).st
                               b == set_height(a, Fin(new_height, 2)).st
                           IN  Ret(b, "ok")

\* Decimal(scale_factor_str) followed by "<= 0" raises for an unparsable
\* string, NaN, -Infinity and a finite value <= 0, before any field is
\* touched.  +Infinity passes that test; the product with it is infinite and
\* its quantize raises InvalidOperation after the temporary unlock.
multiply_by_scale(s, scale_factor) ==
    IF scale_factor.kind \in {"bad", "nan"} THEN Ret(s, "error")
    ELSE IF scale_factor.coef <= 0 THEN Ret(s, "error")
    ELSE LET was_locked == s.l
             u == IF was_locked THEN lock_ratio(s, FALSE) ELSE s
         IN  IF scale_factor.kind = "inf" THEN Ret(u, "error")
             ELSE LET new_width == round2_scale(u.w, scale_factor)
                      new_height == round2_scale(u.h, scale_factor)
                  IN  IF new_width <= 0 \/ new_height <= 0
                      THEN Ret(IF was_locked THEN lock_ratio(u, TRUE) ELSE u,
                               "warning")
                      ELSE LET a == set_width(u, Fin(new_width, 2)).st
                               b == set_height(a, Fin(new_height, 2)).st
                           IN  Ret(IF was_locked THEN lock_ratio(b, TRUE) ELSE b,
                                   "ok")

(***************************************************************************)
(* The read-only views and the texts they format.                          *)
(***************************************************************************)
Digit == <<"0", "1", "2", "3", "4", "5", "6", "7", "8", "9">>

\* str(n) of an integer n >= 0
RECURSIVE IntText(_)
IntText(n) ==
    IF n < 10 THEN Digit[n + 1] ELSE IntText(n \div 10) \o Digit[(n % 10) + 1]

\* n / d rounded to an integer with ROUND_HALF_EVEN, n >= 0, d > 0: the
\* rounding Decimal.__format__ applies
RoundHalfEvenDiv(n, d) ==
    LET q == n \div d
        r == n % d
    IN  IF 2 * r > d \/ (2 * r = d /\ q % 2 = 1) THEN q + 1 ELSE q

\* int(value.to_integral_value(rounding=ROUND_HALF_UP)) of a count of
\* hundredths
to_integral_value(v) == RoundHalfUpDiv(v, 100)

width_int(s) == to_integral_value(s.w)

height_int(s) == to_integral_value(s.h)

\* f"{decimal_part:.2f}"[1:] of abs(value - Decimal(value_int)), a magnitude
\* below 1: "0.dd" without its leading zero, or "" when the magnitude is zero
decimal_part_str(v) ==
    LET decimal_part == Abs(v - 100 * to_integral_value(v)) IN
    IF decimal_part = 0 THEN ""
    ELSE "." \o Digit[(decimal_part \div 10) + 1] \o Digit[(decimal_part % 10) + 1]

width_decimal_part_str(s) == decimal_part_str(s.w)

height_decimal_part_str(s) == decimal_part_str(s.h)

\* f"{ratio:.3f}:1": three decimals, rounded half-even
aspect_ratio_str(s) ==
    IF s.r = None \/ s.r = 0 THEN "N/A"
    ELSE LET m == RoundHalfEvenDiv(s.r, 1000) IN
         IntText(m \div 1000) \o "." \o Digit[((m \div 100) % 10) + 1]
             \o Digit[((m \div 10) % 10) + 1] \o Digit[(m % 10) + 1] \o ":1"

total_pixels(s) == width_int(s) * height_int(s)

\* f"{n:,.0f}": the digits of n >= 0 in groups of three
RECURSIVE GroupedText(_)
GroupedText(n) ==
    IF n < 1000 THEN IntText(n)
    ELSE GroupedText(n \div 1000) \o "," \o Digit[((n \div 100) % 10) + 1]
             \o Digit[((n \div 10) % 10) + 1] \o Digit[(n % 10) + 1]

(***************************************************************************)
(* The preset catalog, <<width, height>> in pixels, and its application.   *)
(***************************************************************************)
PRESETS ==
    << <<640, 480>>, <<1280, 720>>, <<1920, 1080>>, <<2560, 1440>>,
       <<3840, 2160>>, <<2048, 1080>>, <<4096, 2160>>, <<1998, 1453>>,
       <<1998, 1080>>, <<2048, 858>>, <<2160, 1080>>, <<4096, 2160>>,
       <<4096, 2864>>, <<1080, 2340>>, <<1080, 2400>>, <<1440, 3040>>,
       <<1440, 3360>>, <<1640, 2360>>, <<1668, 2388>>, <<2560, 1600>>,
       <<2880, 1920>>, <<1080, 1080>>, <<3000, 2000>>, <<2000, 1500>>,
       <<2100, 2450>>, <<2100, 1500>>, <<2400, 1920>> >>

\* index 0 stands for a name that is not in the catalog
find_preset_by_name(name) == IF name \in 1..Len(PRESETS) THEN name ELSE 0

\* no temporary unlock: under the lock each setter derives the other dimension
_apply_preset_no_unlock(s, preset_name) ==
    LET preset == find_preset_by_name(preset_name) IN
    IF preset = 0 THEN Ret(s, "warning")
    ELSE LET a == set_width(s, Fin(PRESETS[preset][1], 0)).st
             b == set_height(a, Fin(PRESETS[preset][2], 0)).st
         IN  Ret(b, "ok")

_apply_preset(s, preset_name) ==
    LET preset == find_preset_by_name(preset_name) IN
    IF preset = 0 THEN Ret(s, "warning")
    ELSE LET is_locked == s.l
             u == IF is_locked THEN lock_ratio(s, FALSE) ELSE s
             a == set_width(u, Fin(PRESETS[preset][1], 0)).st
             b == set_height(a, Fin(PRESETS[preset][2], 0)).st
         IN  Ret(IF is_locked THEN lock_ratio(b, TRUE) ELSE b, "ok")

(***************************************************************************)
(* State machine.                                                          *)
(***************************************************************************)
Cur == Fields(width, height, aspect_ratio, ratio_locked)

InBounds(s) == s.w <= MaxDim /\ s.h <= MaxDim /\ s.r <= MaxRatio

__init__ == _calculate_ratio(Fields(192000, 108000, None, FALSE))

NoPrev == [op |-> "other", arg |-> 0, pre |-> __init__, res |-> "ok"]

\* the fields take the values a method leaves, and the operation is recorded
Commit(op, arg, ret) ==
    /\ width' = ret.st.w
    /\ height' = ret.st.h
    /\ aspect_ratio' = ret.st.r
    /\ ratio_locked' = ret.st.l
    /\ last' = [op |-> op, arg |-> arg, pre |-> Cur, res |-> ret.res]
    /\ prev' = IF last.op \in {"setWidth", "setLocked"} THEN last ELSE NoPrev
    /\ steps' = steps + 1

\* the contents update_ui_from_calculator gives the widgets: it reads the
\* getters with the widgets' signals blocked and writes nothing back
update_ui_from_calculator(s) ==
    [ width_spinbox |-> width_int(s),
      width_decimal_label |-> width_decimal_part_str(s),
      height_spinbox |-> height_int(s),
      height_decimal_label |-> height_decimal_part_str(s),
      width_slider |-> s.w,
      height_slider |-> s.h,
      ratio_display_label |-> aspect_ratio_str(s),
      lock_ratio_checkbox |-> s.l,
      total_pixels_label |-> GroupedText(total_pixels(s)) ]

DimInputs ==
    { Unparsable, NaN, Fin(-5, 0), Fin(0, 0), Fin(4, 3), Fin(5, 3),
      Fin(1, 0), Fin(25000, 0) }

Init ==
    /\ width = __init__.w
    /\ height = __init__.h
    /\ aspect_ratio = __init__.r
    /\ ratio_locked = __init__.l
    /\ last = [op |-> "init", arg |-> 0, pre |-> __init__, res |-> "ok"]
    /\ prev = NoPrev
    /\ steps = 0
    /\ shown = update_ui_from_calculator(__init__)

RatioInputs ==
    { <<Fin(16, 0), Fin(9, 0)>>, <<Fin(7, 0)>>, <<Fin(4, 1)>>,
      <<Fin(4, 7)>>, <<Fin(0, 0), Fin(5, 0)>>,
      <<Fin(1, 0), Fin(2, 0), Fin(3, 0)>>, <<Unparsable>>,
      <<PosInf, Fin(1, 0)>> }

ScaleInputs ==
    { Unparsable, PosInf, NegInf, Fin(0, 0), Fin(1, 1), Fin(5, 1),
      Fin(2, 0) }

PresetInputs == 0..MaxPreset

setWidth ==
    \E v \in DimInputs :
        LET ret == set_width(Cur, v) IN
        /\ steps < MaxSteps /\ InBounds(ret.st)
        /\ Commit("setWidth", v, ret)
        /\ shown' = update_ui_from_calculator(ret.st)

setHeight ==
    \E v \in DimInputs :
        LET ret == set_height(Cur, v) IN
        /\ steps < MaxSteps /\ InBounds(ret.st)
        /\ Commit("setHeight", v, ret)
        /\ shown' = update_ui_from_calculator(ret.st)

setLocked ==
    \E b \in BOOLEAN :
        LET ret == Ret(lock_ratio(Cur, b), "ok") IN
        /\ steps < MaxSteps /\ InBounds(ret.st)
        /\ Commit("setLocked", b, ret)
        /\ shown' = [shown EXCEPT !.lock_ratio_checkbox = b]

applyRatioString ==
    \E t \in RatioInputs, base \in BOOLEAN :
        LET ret == set_ratio_and_calculate(Cur, t, base) IN
        /\ steps < MaxSteps /\ InBounds(ret.st)
        /\ Commit("applyRatioString", <<t, base>>, ret)
        /\ shown' = update_ui_from_calculator(ret.st)

scaleBy ==
    \E f \in ScaleInputs :
        LET ret == multiply_by_scale(Cur, f) IN
        /\ steps < MaxSteps /\ InBounds(ret.st)
        /\ Commit("scaleBy", f, ret)
        /\ shown' = IF f.kind \in {"bad", "nan"} \/ f.coef <= 0
                     THEN shown
                     ELSE update_ui_from_calculator(ret.st)

applyPreset ==
    \E n \in PresetInputs :
        LET ret == _apply_preset(Cur, n) IN
        /\ steps < MaxSteps /\ InBounds(ret.st)
        /\ Commit("applyPreset", n, ret)
        /\ shown' = IF find_preset_by_name(n) = 0
                     THEN shown
                     ELSE update_ui_from_calculator(ret.st)

Next ==
    \/ setWidth
    \/ setHeight
    \/ setLocked
    \/ applyRatioString
    \/ scaleBy
    \/ applyPreset

Spec == Init /\ [][Next]_vars

(***************************************************************************)
(* Properties.  Pre is the field record before the latest operation.       *)
(***************************************************************************)
Pre == last.pre

\* the latest operation was op and ran on a finite argument whose rounding to
\* 2 decimals is positive
PositiveDim(op) ==
    last.op = op /\ last.arg.kind = "fin" /\ Quantize(last.arg, 2) > 0

\* the latest operation was scaleBy with a finite positive factor
PositiveScale == last.op = "scaleBy" /\ last.arg.kind = "fin" /\ last.arg.coef > 0

\* C1 as stated: in every reachable state, whenever ratio_locked is false,
\* aspect_ratio equals round6(width / height).
C1_UnlockedRatioIsQuotient ==
    ~ratio_locked => aspect_ratio = round6_div(width, height)

\* C1 amended: aspect_ratio equals round6(width / height) in the initial
\* state and in every unlocked state left by a committed setWidth, setHeight,
\* scaleBy or preset application; releasing the lock keeps the frozen ratio.
C1_RatioAfterDimensionChange ==
    ( /\ ~ratio_locked
      /\ last.op \in {"init", "setWidth", "setHeight", "scaleBy", "applyPreset"}
      /\ last.res = "ok" )
    => aspect_ratio = round6_div(width, height)

\* an unlocked width change recomputes a ratio that unlocking had left frozen
C1_Witness ==
    /\ last.op = "setWidth" /\ last.res = "ok"
    /\ ~Pre.l /\ ~ratio_locked
    /\ Pre.r # round6_div(Pre.w, Pre.h)
    /\ aspect_ratio # Pre.r

\* what a full commit of each operation is, after sections 4.1 to 4.4
CommittedSetWidth ==
    LET nw == Quantize(last.arg, 2) IN
    /\ PositiveDim("setWidth")
    /\ width = nw /\ ratio_locked = Pre.l
    /\ IF Pre.l
       THEN /\ aspect_ratio = Pre.r
            /\ IF Pre.r > 0
               THEN height = round2_div(nw, Pre.r) /\ height > 0
               ELSE height = Pre.h
       ELSE height = Pre.h /\ aspect_ratio = round6_div(width, height)

CommittedSetHeight ==
    LET nh == Quantize(last.arg, 2) IN
    /\ PositiveDim("setHeight")
    /\ height = nh /\ ratio_locked = Pre.l
    /\ IF Pre.l
       THEN /\ aspect_ratio = Pre.r
            /\ IF Pre.r > 0
               THEN width = round2_mul(nh, Pre.r) /\ width > 0
               ELSE width = Pre.w
       ELSE width = Pre.w /\ aspect_ratio = round6_div(width, height)

CommittedSetLocked ==
    /\ last.op = "setLocked"
    /\ ratio_locked = last.arg /\ width = Pre.w /\ height = Pre.h
    /\ IF last.arg /\ ~Pre.l
       THEN aspect_ratio = round6_div(width, height)
       ELSE aspect_ratio = Pre.r

\* the dependent dimension is updated, or kept when it would round to <= 0
CommittedApplyRatio ==
    /\ last.op = "applyRatioString"
    /\ LET t == ParseRatio(last.arg[1]) IN
       /\ t > 0 /\ aspect_ratio = t /\ ratio_locked
       /\ IF last.arg[2]
          THEN /\ width = Pre.w
               /\ IF round2_div(Pre.w, t) > 0
                  THEN height = round2_div(Pre.w, t) ELSE height = Pre.h
          ELSE /\ height = Pre.h
               /\ IF round2_mul(Pre.h, t) > 0
                  THEN width = round2_mul(Pre.h, t) ELSE width = Pre.w

CommittedScale ==
    /\ PositiveScale
    /\ width = round2_scale(Pre.w, last.arg) /\ width > 0
    /\ height = round2_scale(Pre.h, last.arg) /\ height > 0
    /\ ratio_locked = Pre.l
    /\ aspect_ratio = round6_div(width, height)

\* C2 as stated: every public operation fully commits its mutation or leaves
\* width, height, aspect_ratio and ratio_locked as they were (applyRatioString
\* may keep ratio and lock without the dependent dimension).
C2_CommitOrUnchanged ==
    last.op \in {"setWidth", "setHeight", "setLocked", "applyRatioString", "scaleBy"}
    => \/ Cur = Pre
       \/ CommittedSetWidth
       \/ CommittedSetHeight
       \/ CommittedSetLocked
       \/ CommittedApplyRatio
       \/ CommittedScale

\* C3 as stated: in a locked state with frozen ratio r, setWidth(w1) with a
\* positive w1 yields height = round2(w1 / r), and setHeight(h1) with a
\* positive h1 yields width = round2(h1 * r) (w1, h1 with at most 2 decimals).
C3_LockedDependentAlways ==
    /\ (PositiveDim("setWidth") /\ last.arg.scale <= 2 /\ Pre.l /\ Pre.r > 0)
       => height = round2_div(Quantize(last.arg, 2), Pre.r)
    /\ (PositiveDim("setHeight") /\ last.arg.scale <= 2 /\ Pre.l /\ Pre.r > 0)
       => width = round2_mul(Quantize(last.arg, 2), Pre.r)

\* C3 amended: in a locked state with frozen ratio r > 0, setWidth(w1) with
\* round2(w1) > 0 yields width = round2(w1) and height = round2(round2(w1) / r)
\* when that height is positive, and changes nothing when it is not; likewise
\* setHeight(h1) with width = round2(round2(h1) * r).
C3_LockedDependent ==
    /\ (PositiveDim("setWidth") /\ Pre.l /\ Pre.r > 0)
       => LET w1 == Quantize(last.arg, 2) IN
          IF round2_div(w1, Pre.r) > 0
          THEN Cur = [Pre EXCEPT !.w = w1, !.h = round2_div(w1, Pre.r)]
          ELSE Cur = Pre
    /\ (PositiveDim("setHeight") /\ Pre.l /\ Pre.r > 0)
       => LET h1 == Quantize(last.arg, 2) IN
          IF round2_mul(h1, Pre.r) > 0
          THEN Cur = [Pre EXCEPT !.h = h1, !.w = round2_mul(h1, Pre.r)]
          ELSE Cur = Pre

\* a locked height change has moved the width to a new value
C3_Witness ==
    /\ PositiveDim("setHeight") /\ Pre.l /\ Pre.r > 0
    /\ last.res = "ok" /\ width # Pre.w /\ height # Pre.h
\* the exact quotient w / h of two finite positive Decimal inputs, rounded
\* half-up to 6 decimals, in millionths
round6_of_inputs(w, h) ==
    DivRound(w.coef * Pow10(h.scale), h.coef * Pow10(w.scale), 6)

\* the latest two operations were setWidth(w) then setHeight(h), w and h
\* finite, on a state that was unlocked
WidthThenHeight ==
    /\ prev.op = "setWidth" /\ prev.arg.kind = "fin"
    /\ last.op = "setHeight" /\ last.arg.kind = "fin"
    /\ ~prev.pre.l

\* C4 as stated: for all positive decimal w and h, from an unlocked state,
\* setWidth(w) then setHeight(h) yields aspect_ratio = round6(w / h).
C4_RatioOfInputs ==
    (WidthThenHeight /\ prev.arg.coef > 0 /\ last.arg.coef > 0)
    => aspect_ratio = round6_of_inputs(prev.arg, last.arg)

\* C4 amended: for all decimal w and h whose roundings to 2 decimals are
\* positive, from an unlocked state, setWidth(w) then setHeight(h) yields
\* width = round2(w), height = round2(h) and
\* aspect_ratio = round6(round2(w) / round2(h)).
C4_RatioOfRoundedInputs ==
    (WidthThenHeight /\ Quantize(prev.arg, 2) > 0 /\ Quantize(last.arg, 2) > 0)
    => /\ width = Quantize(prev.arg, 2)
       /\ height = Quantize(last.arg, 2)
       /\ aspect_ratio = round6_div(Quantize(prev.arg, 2), Quantize(last.arg, 2))
       /\ ~ratio_locked

\* setWidth("0.005") then setHeight("1") from an unlocked state: both inputs
\* are positive and the width is rounded up to 0.01 before the division
C4_Witness ==
    /\ WidthThenHeight
    /\ prev.arg = Fin(5, 3) /\ last.arg = Fin(1, 0)
    /\ prev.res = "ok" /\ last.res = "ok"
    /\ aspect_ratio = 10000

\* the latest two operations were setLocked(true) then setLocked(false)
LockThenUnlock ==
    /\ prev.op = "setLocked" /\ prev.arg = TRUE
    /\ last.op = "setLocked" /\ last.arg = FALSE

\* C5 as stated: setLocked(true) immediately followed by setLocked(false)
\* leaves width, height and aspect_ratio at their values before the pair.
C5_RoundTripKeepsAll ==
    LockThenUnlock
    => /\ width = prev.pre.w
       /\ height = prev.pre.h
       /\ aspect_ratio = prev.pre.r

\* C5 amended: setLocked(true) immediately followed by setLocked(false)
\* leaves width and height unchanged and ends unlocked; aspect_ratio is
\* unchanged when the state was locked before the pair, and is
\* round6(width / height) when it was unlocked.
C5_RoundTrip ==
    LockThenUnlock
    => /\ width = prev.pre.w
       /\ height = prev.pre.h
       /\ ~ratio_locked
       /\ aspect_ratio = IF prev.pre.l THEN prev.pre.r
                         ELSE round6_div(prev.pre.w, prev.pre.h)

\* the pair has run on an unlocked state and has replaced its ratio
C5_Witness ==
    /\ LockThenUnlock
    /\ ~prev.pre.l /\ ~ratio_locked
    /\ aspect_ratio # prev.pre.r

\* C6: scaleBy(factor) with round2(width * factor) and round2(height * factor)
\* both positive ends with width and height at those values, ratio_locked as
\* before the call and aspect_ratio = round6(new width / new height), from a
\* locked and from an unlocked state.
C6_ScaleCommits ==
    ( /\ PositiveScale
      /\ round2_scale(Pre.w, last.arg) > 0
      /\ round2_scale(Pre.h, last.arg) > 0 )
    => /\ width = round2_scale(Pre.w, last.arg)
       /\ height = round2_scale(Pre.h, last.arg)
       /\ ratio_locked = Pre.l
       /\ aspect_ratio = round6_div(width, height)
       /\ last.res = "ok"

\* a scale has committed on a locked state whose dimensions were not in the
\* frozen ratio, with a factor that makes a dimension round
C6_Witness ==
    /\ PositiveScale /\ last.res = "ok"
    /\ Pre.l /\ Pre.r # round6_div(Pre.w, Pre.h)
    /\ width * Pow10(last.arg.scale) # Pre.w * last.arg.coef

\* C7 as stated: a scaleBy that commits on a locked state leaves ratio_locked
\* true and aspect_ratio unchanged.
C7_ScaleKeepsFrozenRatio ==
    (last.op = "scaleBy" /\ Pre.l /\ last.res = "ok")
    => ratio_locked /\ aspect_ratio = Pre.r

\* C7 amended: a scaleBy that commits on a locked state leaves ratio_locked
\* true and freezes aspect_ratio anew at round6(new width / new height); from
\* 1920 x 1080 locked at 1.777778, factor 2 ends at 3840.00 x 2160.00 with
\* the ratio still 1.777778.
C7_ScaleRefreezesRatio ==
    /\ (last.op = "scaleBy" /\ Pre.l /\ last.res = "ok")
       => ratio_locked /\ aspect_ratio = round6_div(width, height)
    /\ (last.op = "scaleBy" /\ last.arg = Fin(2, 0)
        /\ Pre = Fields(192000, 108000, 1777778, TRUE))
       => Cur = Fields(384000, 216000, 1777778, TRUE)

\* a scale has committed on a locked state and the frozen ratio has moved
C7_Witness ==
    /\ last.op = "scaleBy" /\ Pre.l /\ last.res = "ok"
    /\ ratio_locked /\ aspect_ratio # Pre.r

\* C8 as stated: when scaleBy computes a width or height that rounds to a
\* value <= 0 it aborts with width, height, aspect_ratio and ratio_locked as
\* before the call, from an unlocked and from a locked state.
C8_AbortChangesNothing ==
    ( /\ PositiveScale
      /\ \/ round2_scale(Pre.w, last.arg) <= 0
         \/ round2_scale(Pre.h, last.arg) <= 0 )
    => Cur = Pre

\* C9 as stated: whenever scaleBy fails with a reported error, width, height,
\* aspect_ratio and ratio_locked are unchanged; a locked state stays locked.
C9_ErrorChangesNothing ==
    (last.op = "scaleBy" /\ last.res = "error") => Cur = Pre

\* C10: setWidth(v) or setHeight(v) with a value that is unparsable or whose
\* round2 is <= 0 leaves width, height, aspect_ratio and ratio_locked
\* unchanged, locked or not.
C10_InvalidDimensionRejected ==
    ( /\ last.op \in {"setWidth", "setHeight"}
      /\ \/ last.arg.kind # "fin"
         \/ Quantize(last.arg, 2) <= 0 )
    => Cur = Pre /\ last.res = "error"

\* setWidth("-5") has run on a locked state
C10_Witness ==
    /\ last.op = "setWidth" /\ last.arg = Fin(-5, 0)
    /\ Pre.l /\ last.res = "error"

\* C11: in a locked state with a non-zero frozen ratio, a setWidth whose
\* dependent height rounds to a value <= 0, and a setHeight whose dependent
\* width rounds to a value <= 0, is rejected with a warning: width, height,
\* aspect_ratio and ratio_locked are all as before the call.
C11_NonPositiveDependentRejected ==
    /\ ( /\ PositiveDim("setWidth") /\ Pre.l /\ Pre.r # None /\ Pre.r # 0
         /\ round2_div(Quantize(last.arg, 2), Pre.r) <= 0 )
       => Cur = Pre /\ last.res = "warning"
    /\ ( /\ PositiveDim("setHeight") /\ Pre.l /\ Pre.r # None /\ Pre.r # 0
         /\ round2_mul(Quantize(last.arg, 2), Pre.r) <= 0 )
       => Cur = Pre /\ last.res = "warning"

\* a width of 0.01 has been requested under a frozen ratio above 2, where the
\* height would round to 0.00, on a state holding another width
C11_Witness ==
    /\ PositiveDim("setWidth") /\ Pre.l /\ Pre.r > 2000000
    /\ Quantize(last.arg, 2) = 1 /\ Pre.w # 1
    /\ last.res = "warning"

\* the ways a ratio text fails: more than one ':', a part that is not a
\* finite number, a non-positive part of "L:R", or a ratio that rounds to a
\* value <= 0 at 6 decimals
InvalidRatio(ratio_str) ==
    \/ Len(ratio_str) > 2
    \/ \E i \in 1..Len(ratio_str) : ratio_str[i].kind # "fin"
    \/ Len(ratio_str) = 2 /\ \E i \in 1..2 : ratio_str[i].coef <= 0
    \/ Len(ratio_str) = 1 /\ Quantize(ratio_str[1], 6) <= 0
    \/ Len(ratio_str) = 2 /\ round6_of_inputs(ratio_str[1], ratio_str[2]) <= 0

\* C12: applyRatioString with a text that fails to parse leaves width,
\* height, aspect_ratio and ratio_locked unchanged and reports an error; an
\* unlocked state stays unlocked.
C12_InvalidRatioChangesNothing ==
    (last.op = "applyRatioString" /\ InvalidRatio(last.arg[1]))
    => Cur = Pre /\ last.res = "error"

\* "0.0000004", which rounds to a ratio of 0.000000, has been applied to an
\* unlocked state
C12_Witness ==
    /\ last.op = "applyRatioString" /\ last.arg[1] = <<Fin(4, 7)>>
    /\ ~Pre.l /\ ~ratio_locked /\ last.res = "error"

\* the ratio a valid text stands for, from its parts, in millionths
RatioOfText(ratio_str) ==
    IF Len(ratio_str) = 1
    THEN Quantize(ratio_str[1], 6)
    ELSE round6_of_inputs(ratio_str[1], ratio_str[2])

\* the latest operation was applyRatioString with a valid text whose
\* dependent dimension, from the dimension it is based on, rounds to a
\* positive value
RatioApplied ==
    /\ last.op = "applyRatioString" /\ ~InvalidRatio(last.arg[1])
    /\ IF last.arg[2]
       THEN round2_div(Pre.w, RatioOfText(last.arg[1])) > 0
       ELSE round2_mul(Pre.h, RatioOfText(last.arg[1])) > 0

\* C13: a successful applyRatioString("L:R", baseOnWidth) sets aspect_ratio
\* to round6(L / R) and ratio_locked to true whatever the lock was; with
\* baseOnWidth it sets height to round2(width / ratio) and keeps width,
\* otherwise it sets width to round2(height * ratio) and keeps height;
\* "16:9" based on a width of 1920 gives ratio 1.777778, height 1080.00,
\* locked.
C13_RatioApplied ==
    /\ RatioApplied
       => LET r == RatioOfText(last.arg[1]) IN
          /\ aspect_ratio = r /\ ratio_locked /\ last.res = "ok"
          /\ IF last.arg[2]
             THEN width = Pre.w /\ height = round2_div(Pre.w, r)
             ELSE height = Pre.h /\ width = round2_mul(Pre.h, r)
    /\ ( /\ last.op = "applyRatioString"
         /\ last.arg = << <<Fin(16, 0), Fin(9, 0)>>, TRUE >>
         /\ Pre.w = 192000 )
       => /\ aspect_ratio = 1777778 /\ height = 108000
          /\ width = 192000 /\ ratio_locked

\* "16:9" based on the height has engaged the lock on an unlocked state and
\* moved the width
C13_Witness ==
    /\ RatioApplied /\ last.arg = << <<Fin(16, 0), Fin(9, 0)>>, FALSE >>
    /\ ~Pre.l /\ ratio_locked
    /\ width # Pre.w /\ aspect_ratio = 1777778

\* the latest operation was applyRatioString with a valid text whose
\* dependent dimension rounds to a value <= 0
RatioAppliedWithoutDimension ==
    /\ last.op = "applyRatioString" /\ ~InvalidRatio(last.arg[1])
    /\ IF last.arg[2]
       THEN round2_div(Pre.w, RatioOfText(last.arg[1])) <= 0
       ELSE round2_mul(Pre.h, RatioOfText(last.arg[1])) <= 0

\* C14: when applyRatioString parses a valid ratio but the dependent
\* dimension rounds to a value <= 0, the call keeps the new aspect_ratio and
\* ratio_locked = true and leaves width and height unchanged.
C14_RatioKeptDimensionSkipped ==
    RatioAppliedWithoutDimension
    => /\ aspect_ratio = RatioOfText(last.arg[1])
       /\ ratio_locked
       /\ width = Pre.w /\ height = Pre.h
       /\ last.res = "warning"

\* a ratio has been applied to an unlocked state whose base dimension is too
\* small for it: the ratio has changed and the lock is engaged
C14_Witness ==
    /\ RatioAppliedWithoutDimension
    /\ ~Pre.l /\ ratio_locked /\ aspect_ratio # Pre.r

\* the fields a catalog preset (pw, ph) applied to s must leave
PresetResult(s, n) ==
    Fields(PRESETS[n][1] * 100, PRESETS[n][2] * 100,
           round6_div(PRESETS[n][1], PRESETS[n][2]), s.l)

\* C15: applying any catalog preset (pw, ph) ends with width = pw,
\* height = ph, ratio_locked as before the application and
\* aspect_ratio = round6(pw / ph): for the preset just applied, and for
\* every preset of the catalog applied in its place to the same state;
\* locked at ratio 1.0, preset (1280, 720) ends locked with ratio 1.777778.
C15_PresetApplied ==
    /\ (last.op = "applyPreset" /\ last.arg \in 1..Len(PRESETS))
       => Cur = PresetResult(Pre, last.arg)
    /\ last.op = "applyPreset"
       => \A n \in 1..Len(PRESETS) :
              _apply_preset(Pre, n) = Ret(PresetResult(Pre, n), "ok")
    /\ ( /\ last.op = "applyPreset" /\ last.arg = 2
         /\ Pre.l /\ Pre.r = 1000000 )
       => Cur = Fields(128000, 72000, 1777778, TRUE)

\* preset (1280, 720) has been applied to a state locked at ratio 1.0
C15_Witness ==
    /\ last.op = "applyPreset" /\ last.arg = 2
    /\ Pre.l /\ Pre.r = 1000000
    /\ ratio_locked /\ aspect_ratio = 1777778

\* C16: starting from a locked state, aspect_ratio changes only through
\* applyRatioString, setLocked, scaleBy or a preset application; setWidth and
\* setHeight change neither aspect_ratio nor ratio_locked while the lock is
\* engaged, whether the update commits or is rejected.
C16_LockedRatioFrozen ==
    /\ (Pre.l /\ last.op # "init" /\ aspect_ratio # Pre.r)
       => last.op \in {"applyRatioString", "setLocked", "scaleBy", "applyPreset"}
    /\ (Pre.l /\ last.op \in {"setWidth", "setHeight"})
       => aspect_ratio = Pre.r /\ ratio_locked

\* a width change has committed under the lock and the frozen ratio is no
\* longer the quotient of the dimensions
C16_Witness ==
    /\ last.op = "setWidth" /\ Pre.l /\ last.res = "ok"
    /\ width # Pre.w /\ height # Pre.h
    /\ aspect_ratio = Pre.r
    /\ aspect_ratio # round6_div(width, height)

\* C17: in every reachable state width and height are strictly positive
\* multiples of 0.01 (positive whole numbers of hundredths), after any
\* sequence of the six operations, rejected calls included.
C17_PositiveDimensions ==
    /\ width \in Nat /\ width > 0
    /\ height \in Nat /\ height > 0

\* a scale that would round the width to 0.00 has been refused at the
\* smallest width, 0.01
C17_Witness ==
    /\ PositiveScale /\ last.res = "warning"
    /\ width = 1 /\ round2_scale(Pre.w, last.arg) = 0

\* C18 as stated: in every reachable state aspect_ratio is defined and
\* strictly positive, so a locked state always has a non-zero frozen ratio.
C18_RatioPositive ==
    aspect_ratio # None /\ aspect_ratio > 0

\* C19: setLocked(b) on a state whose ratio_locked is already b changes
\* nothing (setLocked(true) on a locked state does not recompute the frozen
\* aspect_ratio), and setLocked(false) on a locked state changes only
\* ratio_locked.
C19_SetLockedFrame ==
    /\ (last.op = "setLocked" /\ last.arg = Pre.l) => Cur = Pre
    /\ (last.op = "setLocked" /\ ~last.arg /\ Pre.l)
       => Cur = [Pre EXCEPT !.l = FALSE]

\* setLocked(true) has run on a locked state whose frozen ratio is not the
\* quotient of its dimensions, and the ratio is still the frozen one
C19_Witness ==
    /\ last.op = "setLocked" /\ last.arg /\ Pre.l
    /\ Pre.r # round6_div(Pre.w, Pre.h)
    /\ aspect_ratio = Pre.r

\* C20: setLocked(true) on an unlocked state sets ratio_locked to true and
\* aspect_ratio to round6(width / height) of the width and height at that
\* moment, which it leaves unchanged.
C20_LockRecomputesRatio ==
    (last.op = "setLocked" /\ last.arg /\ ~Pre.l)
    => Cur = Fields(Pre.w, Pre.h, round6_div(Pre.w, Pre.h), TRUE)

\* locking has replaced a ratio that an earlier unlock had left frozen
C20_Witness ==
    /\ last.op = "setLocked" /\ last.arg /\ ~Pre.l
    /\ ratio_locked /\ aspect_ratio # Pre.r

\* C21 as stated: every handler that changes the calculator is followed,
\* before the next event, by a display refresh, so that between events the
\* widgets show what the getters return: the displayed ratio, dimensions and
\* lock state never lag behind the calculator.
C21_DisplayFollowsCalculator ==
    shown = update_ui_from_calculator(Cur)

\* the text of a fractional part of k hundredths, 0 <= k < 100: ".dd", or ""
\* for zero
DecimalPartText(k) ==
    IF k = 0 THEN ""
    ELSE "." \o Digit[(k \div 10) + 1] \o Digit[(k % 10) + 1]

\* the number of hundredths a fractional-part text stands for
DecimalPartValue(text) == CHOOSE k \in 0..99 : DecimalPartText(k) = text

\* the integer view and the fractional-part text of a value v rebuild it
ViewsReconstruct(v, int, text) ==
    /\ text = DecimalPartText(v % 100)
    /\ (text = "") <=> (v % 100 = 0)
    /\ v = 100 * int + DecimalPartValue(text)

\* C22 as stated: for every reachable width and height, the fractional-part
\* text is the decimal part of the value (".75" for a value ending in .75),
\* it is empty exactly when the value is integral, and the integer view plus
\* the fractional part is the value.
C22_ViewsReconstructValue ==
    /\ ViewsReconstruct(width, width_int(Cur), width_decimal_part_str(Cur))
    /\ ViewsReconstruct(height, height_int(Cur), height_decimal_part_str(Cur))

\* the dimensions of s agree with its ratio: the ratio is positive and
\* height = round2(width / ratio) or width = round2(height * ratio)
LockedConsistent(s) ==
    /\ s.r > 0
    /\ \/ s.h = round2_div(s.w, s.r)
       \/ s.w = round2_mul(s.h, s.r)

\* C23 as stated: in every reachable locked state,
\* height = round2(width / aspect_ratio) or
\* width = round2(height * aspect_ratio).
C23_LockedAlwaysConsistent ==
    ratio_locked => LockedConsistent(Cur)

\* C23 amended: a locked state has the dimensions its latest committed
\* operation derived.  After a committed setWidth under a frozen ratio r > 0,
\* height = round2(width / r); after a committed setHeight,
\* width = round2(height * r); under a frozen ratio of 0 the setter changes
\* its own dimension only.  After an applyRatioString that updates the
\* dependent dimension, height = round2(width / ratio) when based on width
\* and width = round2(height * ratio) when based on height.  After
\* setLocked(true) on an unlocked state, and after a scaleBy or a preset
\* application that ends locked without an error,
\* aspect_ratio = round6(width / height), and width = round2(height * ratio)
\* when height is below 10000.  A rejected setWidth or setHeight leaves the
\* state as it was, consistent or not.
C23_LockedConsistentAfterCommit ==
    /\ (last.op = "setWidth" /\ last.res = "ok" /\ Pre.l)
       => IF Pre.r > 0
          THEN LockedConsistent(Cur) /\ height = round2_div(width, aspect_ratio)
          ELSE height = Pre.h /\ aspect_ratio = Pre.r
    /\ (last.op = "setHeight" /\ last.res = "ok" /\ Pre.l)
       => IF Pre.r > 0
          THEN LockedConsistent(Cur) /\ width = round2_mul(height, aspect_ratio)
          ELSE width = Pre.w /\ aspect_ratio = Pre.r
    /\ (last.op = "applyRatioString" /\ last.res = "ok")
       => /\ ratio_locked /\ LockedConsistent(Cur)
          /\ IF last.arg[2]
             THEN height = round2_div(width, aspect_ratio)
             ELSE width = round2_mul(height, aspect_ratio)
    /\ ( /\ ratio_locked
         /\ \/ last.op = "setLocked" /\ ~Pre.l
            \/ last.op = "scaleBy" /\ last.res # "error"
            \/ last.op = "applyPreset" /\ last.res = "ok" )
       => /\ aspect_ratio = round6_div(width, height)
          /\ height < 1000000
             => LockedConsistent(Cur) /\ width = round2_mul(height, aspect_ratio)
    /\ (last.op \in {"setWidth", "setHeight"} /\ last.res # "ok") => Cur = Pre

\* a width change has committed under the lock on a state whose dimensions
\* did not agree with the frozen ratio, and they agree now
C23_Witness ==
    /\ last.op = "setWidth" /\ last.res = "ok"
    /\ Pre.l /\ Pre.r > 0 /\ ~LockedConsistent(Pre)
    /\ ratio_locked /\ LockedConsistent(Cur)
====
